---- MODULE Spec2Model ----
(***************************************************************************)
(* Model of node-buspirate (src/lib/buspirate.js): the waiter list that    *)
(* matches inbound serial data against expected byte patterns, the mode    *)
(* negotiation built on it (constructor, reset_console, enter_binmode,     *)
(* switch_mode, Uart.uart_bridge), and the operations that shake hands     *)
(* with the device over it (config_periph and the Uart driver's start,     *)
(* setopts, echo_rx, write_block and write).                               *)
(*                                                                         *)
(* Scheduling follows the JavaScript event loop: a macrotask (a port       *)
(* event, a timer callback, a port.write callback, a call made by the      *)
(* application) runs only when the promise-job queue `micro` is empty;     *)
(* jobs run first-in first-out, a callback after the jobs that resolve the *)
(* promises on the way to it.  A call of switch_mode, enter_binmode or a   *)
(* driver operation has succeeded when the application's callback on the   *)
(* promise it returned runs, which is a job of its own.  A reaction that   *)
(* is the only one its macrotask can trigger is folded into that           *)
(* macrotask's action (a rejection and its catch among them), and so are   *)
(* then-callbacks that follow one another without a suspension.            *)
(***************************************************************************)
EXTENDS Naturals, Sequences, FiniteSets

VARIABLES
    mode,         \* this.mode
    waiters,      \* this.waiters: newest first (unshift); entries [id, pat]
    data_buffer,  \* this.data_buffer
    attached,     \* the port 'data' handler has been installed
    timer,        \* per enter_binmode caller: the setInterval handle and its count
    pc,           \* per operation: where its promise chain stands
    micro,        \* promise reactions that are ready to run, oldest first
    tx,           \* every port.write made, in order (one entry per call)
    events,       \* every notification emitted on the BusPirate emitter, in order
    reg,          \* every expect() made, in order; the index is the matcher's id
    resolveLog,   \* every resolve() of an expect() promise, in order: [id, val]
    cycle,        \* the last run of the feed loop: who was pending, who was called
    chunks,       \* the chunks delivered to the data handler (matcher and handshake)
    calls,        \* number of calls the application has made
    smCall,       \* switch_mode's last call: what it found (mode, notifications, ...)
    uart,         \* this.uart: the Uart driver's started, echo_rx_on and settings
    op            \* the driver operation the application called: its promise chain

vars == << mode, waiters, data_buffer, attached, timer, pc, micro, tx, events,
           reg, resolveLog, cycle, chunks, calls, smCall, uart, op >>

-----------------------------------------------------------------------------
(* Bounds of the model *)

MaxMatchers == 2   \* expect() calls in the matcher specification
MaxFed == 3        \* total inbound bytes in the matcher specification

Alphabet == {1, 2}

RECURSIVE SeqsUpTo(_)
SeqsUpTo(n) ==
    IF n = 0 THEN { <<>> }
    ELSE LET shorter == SeqsUpTo(n - 1)
         IN  shorter \cup { Append(s, b) : s \in { t \in shorter : Len(t) = n - 1 }, b \in Alphabet }

\* The patterns handed to expect() in the matcher specification: '' (whatever
\* arrives next), single bytes, and two-byte patterns that share a prefix with them.
Patterns == { <<>>, <<1>>, <<2>>, <<1, 2>>, <<2, 1>> }
ChunkSet == SeqsUpTo(MaxFed) \ { <<>> }

-----------------------------------------------------------------------------
(* Buffers *)

BufferOfArray(a) == [i \in 1..Len(a) |-> a[i] % 256]
BufferOfByte(n) == << n % 256 >>

Slice(buf, n) == SubSeq(buf, n + 1, Len(buf))
Splice(arr, i) == SubSeq(arr, 1, i - 1) \o SubSeq(arr, i + 1, Len(arr))

RECURSIVE Flatten(_)
Flatten(ss) == IF ss = <<>> THEN <<>> ELSE Head(ss) \o Flatten(Tail(ss))

-----------------------------------------------------------------------------
(* The waiter closure and the feed loop *)

Mismatch(pat, buf) == \E i \in 1..Len(pat) : pat[i] # buf[i]

\* A mutant of WaiterResult: the length test of the older wait_for_data (!=).
WaiterResultExactLen(pat, buf) ==
    IF Len(buf) # Len(pat) THEN [hit |-> FALSE, val |-> <<>>, rest |-> buf]
    ELSE IF Len(pat) = 0 THEN [hit |-> TRUE, val |-> buf, rest |-> Slice(buf, Len(buf))]
    ELSE IF Mismatch(pat, buf) THEN [hit |-> FALSE, val |-> <<>>, rest |-> buf]
    ELSE [hit |-> TRUE, val |-> pat, rest |-> Slice(buf, Len(pat))]

\* What one waiter does with the buffer it is handed: whether it resolves, with
\* what, and the buffer it returns.
WaiterResult(pat, buf) ==
    IF Len(buf) < Len(pat) THEN [hit |-> FALSE, val |-> <<>>, rest |-> buf]
    ELSE IF Len(pat) = 0 THEN [hit |-> TRUE, val |-> buf, rest |-> Slice(buf, Len(buf))]
    ELSE IF Mismatch(pat, buf) THEN [hit |-> FALSE, val |-> <<>>, rest |-> buf]
    ELSE [hit |-> TRUE, val |-> pat, rest |-> Slice(buf, Len(pat))]

\* for(var i = waiters.length - 1; i >= 0; i--) data_buffer = waiters[i](...)
\* s = [w, buf, res, ev]: the list, the buffer, the resolutions and the calls so far.
\* Position j here is index j - 1 there.
RECURSIVE FeedLoop(_, _)
FeedLoop(j, s) ==
    IF j < 1 \/ j > Len(s.w) THEN s
    ELSE LET m == s.w[j]
             r == WaiterResult(m.pat, s.buf)
         IN  FeedLoop(j - 1,
                 [w   |-> IF r.hit THEN Splice(s.w, j) ELSE s.w,
                  buf |-> r.rest,
                  res |-> IF r.hit THEN Append(s.res, [id |-> m.id, val |-> r.val]) ELSE s.res,
                  ev  |-> Append(s.ev, m.id)])

\* The port 'data' handler applied to a list and a buffer.
DataHandler(w, buf, chunk) ==
    IF Len(w) > 0
    THEN FeedLoop(Len(w), [w |-> w, buf |-> buf \o chunk, res |-> <<>>, ev |-> <<>>])
    ELSE [w |-> w, buf |-> buf, res |-> <<>>, ev |-> <<>>]

Ids(w) == [i \in 1..Len(w) |-> w[Len(w) + 1 - i].id]   \* oldest first

\* The entries of the promise-job queue: the callback that waits for matcher
\* id, and what the caller o of enter_binmode() does next.  hops is the number
\* of jobs that come first, each of which only resolves the next promise on
\* the way from the promise that was resolved to the one the callback waits on.
MatchedJob(id, hops) == [k |-> "matched", id |-> id, hops |-> hops]
AcquiredJob(o, hops) == [k |-> "acquired", op |-> o, hops |-> hops]
\* The application's callback on the promise the call o returned.
SettledJob(o, hops) == [k |-> "settled", op |-> o, hops |-> hops]

\* The driver chain's callback after an expect(): the expect promise was
\* returned from a then-callback, so the promise of that then is resolved
\* first; in Uart.write the last expect of a block is the value write_block
\* returned from write's own then-callback, which is one promise more.
DrvHops ==
    IF op.name = "write" /\ (Len(op.script) <= 1 \/ op.script[2].k = "write_block")
    THEN 2 ELSE 1

\* enter_binmode attaches its callback to the expect promise itself
\* (expect('BBIO1').then(...)); switch_mode's waits for the promise of
\* .then(() => this.expect(newmode.MODE_ACK)).
MatchedHops(id) ==
    IF reg[id].role = "bbio" THEN 0
    ELSE IF reg[id].role = "ack" THEN 1
    ELSE DrvHops

\* After return Promise.resolve(): the application's own callback comes next;
\* the constructor and switch_mode called enter_binmode from a then-callback,
\* whose promise takes up the returned one and is resolved, two jobs first.
AcquiredHops(o) == IF o = "eb" THEN 0 ELSE 2

\* After enter_binmode's callback on expect('BBIO1'): Promise.race's promise
\* is resolved first, and for the constructor and switch_mode the promise of
\* the then-callback that returned it after that.
RaceHops(o) == IF o = "eb" THEN 1 ELSE 2

\* The reactions a resolution makes ready: a matcher registered by the
\* application has none in the model.
RECURSIVE Reactions(_)
Reactions(res) ==
    IF res = <<>> THEN <<>>
    ELSE (IF reg[Head(res).id].owner = "user" THEN <<>>
          ELSE << MatchedJob(Head(res).id, MatchedHops(Head(res).id)) >>)
         \o Reactions(Tail(res))

OnData(chunk) ==
    LET r == DataHandler(waiters, data_buffer, chunk)
    IN  /\ waiters' = r.w
        /\ data_buffer' = r.buf
        /\ resolveLog' = resolveLog \o r.res
        /\ micro' = micro \o Reactions(r.res)
        /\ cycle' = [pending |-> Ids(waiters), evals |-> r.ev]

\* A mutant of Register: push instead of unshift.
RegisterPush(buf, owner, role) ==
    /\ waiters' = Append(waiters, [id |-> Len(reg) + 1, pat |-> buf])
    /\ reg' = Append(reg, [pat |-> buf, owner |-> owner, role |-> role, at |-> Len(chunks)])

\* expect(): this.waiters.unshift(waiter)
Register(buf, owner, role) ==
    /\ waiters' = << [id |-> Len(reg) + 1, pat |-> buf] >> \o waiters
    /\ reg' = Append(reg, [pat |-> buf, owner |-> owner, role |-> role, at |-> Len(chunks)])

-----------------------------------------------------------------------------
(* Command bytes: JavaScript's | and << on the small non-negative numbers   *)
(* the code applies them to, and the encodings built from them              *)

RECURSIVE BitOr(_, _)
BitOr(a, b) ==
    IF a = 0 THEN b
    ELSE IF b = 0 THEN a
    ELSE (IF a % 2 = 1 \/ b % 2 = 1 THEN 1 ELSE 0) + 2 * BitOr(a \div 2, b \div 2)

RECURSIVE Shl(_, _)
Shl(a, n) == IF n = 0 THEN a ELSE Shl(2 * a, n - 1)

\* ToNumber of a boolean, which is what |, << and < make of it
BoolNum(b) == IF b THEN 1 ELSE 0

FlagNames == {"power", "pullups", "aux", "mosi", "clk", "miso", "cs"}

\* Object.assign({power: false, ...}, opts), opts naming the flags it sets to true
PeriphOptions(opts) == [f \in FlagNames |-> f \in opts]

\* var code = 0x80 | (o.power << 6) | ... | (o.clk < 2) | (o.miso << 1) | o.cs
PeriphCode(o) ==
    BitOr(128, BitOr(Shl(BoolNum(o["power"]), 6), BitOr(Shl(BoolNum(o["pullups"]), 5),
    BitOr(Shl(BoolNum(o["aux"]), 4), BitOr(Shl(BoolNum(o["mosi"]), 3),
    BitOr(BoolNum(BoolNum(o["clk"]) < 2),
    BitOr(Shl(BoolNum(o["miso"]), 1), BoolNum(o["cs"]))))))))

uart_defaults ==
    [baudrate |-> 9600, pin_output |-> 1, data_bits |-> 8, parity_bit |-> "N",
     stop_bits |-> 1, idle_polarity |-> 1]

\* An option of the object handed to setopts is << >> when the caller left it
\* out and << v >> when the caller supplied v.
NoOptions ==
    [baudrate |-> << >>, pin_output |-> << >>, data_bits |-> << >>, parity_bit |-> << >>,
     stop_bits |-> << >>, idle_polarity |-> << >>]

\* options[opt] || uart_defaults[opt], for a number and for a string
OrDefaultNum(x, d) == IF x = << >> THEN d ELSE IF x[1] = 0 THEN d ELSE x[1]
OrDefaultStr(x, d) == IF x = << >> THEN d ELSE IF x[1] = "" THEN d ELSE x[1]

\* for(var opt in uart_defaults) opts[opt] = options[opt] || uart_defaults[opt]
MergeOptions(options) ==
    [baudrate      |-> OrDefaultNum(options.baudrate, uart_defaults.baudrate),
     pin_output    |-> OrDefaultNum(options.pin_output, uart_defaults.pin_output),
     data_bits     |-> OrDefaultNum(options.data_bits, uart_defaults.data_bits),
     parity_bit    |-> OrDefaultStr(options.parity_bit, uart_defaults.parity_bit),
     stop_bits     |-> OrDefaultNum(options.stop_bits, uart_defaults.stop_bits),
     idle_polarity |-> OrDefaultNum(options.idle_polarity, uart_defaults.idle_polarity)]

\* var bauds = {...}: 0 stands for a rate the table does not have (undefined)
Bauds(rate) ==
    CASE rate = 300 -> 96     [] rate = 1200 -> 97    [] rate = 2400 -> 98
      [] rate = 4800 -> 99    [] rate = 9600 -> 100   [] rate = 19200 -> 101
      [] rate = 31250 -> 102  [] rate = 38400 -> 103  [] rate = 57600 -> 104
      [] rate = 115200 -> 105 [] OTHER -> 0

\* var baudcmd = bauds[opts.baudrate] || bauds[uart_defaults.baudrate]
BaudCmd(opts) ==
    IF Bauds(opts.baudrate) # 0 THEN Bauds(opts.baudrate) ELSE Bauds(uart_defaults.baudrate)

\* "NEO".indexOf(parity_bit), for the three letters it has
IndexOfNEO(c) == CASE c = "N" -> 0 [] c = "E" -> 1 [] c = "O" -> 2

\* var config = 0x80 | w | xx | y | z
ConfigByte(opts) ==
    LET w  == Shl(opts.pin_output, 4)
        xx == Shl(IF opts.data_bits = 9 THEN 3 ELSE IndexOfNEO(opts.parity_bit), 2)
        y  == Shl(IF opts.stop_bits = 2 THEN 1 ELSE 0, 1)
        z  == IF opts.idle_polarity # 0 THEN 0 ELSE 1
    IN  BitOr(128, BitOr(w, BitOr(xx, BitOr(y, z))))

\* var code = (on) ? 0x02 : 0x03
EchoCode(on) == IF on THEN 2 ELSE 3

ChunkSize == 16      \* chunkSubstr(buffer, 16); if(buffer.length > 16)
BlockCmd == 16       \* 0x10

\* var lenbyte = 0x10 + buffer.length - 1
LenByte(buffer) == BlockCmd + Len(buffer) - 1

\* for(var i = buffer.length - 1; i >= 0; i--) test.push(0x01)
AckBytes(buffer) == [i \in 1..Len(buffer) |-> 1]

\* chunkSubstr(str, size): Math.ceil(str.length / size) pieces, str.substr(o, size)
NumChunks(str, size) == (Len(str) + size - 1) \div size
Substr(str, o, size) ==
    SubSeq(str, o + 1, IF o + size < Len(str) THEN o + size ELSE Len(str))
ChunkSubstr(str, size) == [i \in 1..NumChunks(str, size) |-> Substr(str, (i - 1) * size, size)]

-----------------------------------------------------------------------------
(* The Uart driver's state and the call the application makes on it         *)

NoSettings == [x \in {} |-> x]     \* this.settings = {}

\* function Uart(buspirate)
NewUart == [started |-> FALSE, echo_rx_on |-> FALSE, settings |-> NoSettings]

\* No driver call: the matcher and the session specifications make none.
NoOp ==
    [name |-> "none", flags |-> {}, options |-> NoOptions, payload |-> << >>, on |-> FALSE,
     listening |-> FALSE, script |-> << >>, wait |-> "", value |-> "", result |-> "uncalled",
     failed |-> FALSE, inSetopts |-> FALSE, txAt |-> 0, regAt |-> 0, evAt |-> 0,
     startedAt |-> FALSE, modeAt |-> ""]

-----------------------------------------------------------------------------
(* The matcher on its own: a connected session, watched from there on, in   *)
(* which the application calls expect() with arbitrary patterns and the     *)
(* device sends arbitrary chunks.                                           *)

Ops == {"ctor", "eb", "sm", "ub"}
Acquirers == {"ctor", "eb", "sm"}
NoTimer == [active |-> FALSE, count |-> 0, wid |-> 0]
NoCall == [from |-> "", ev |-> 0, reg |-> 0, tx |-> 0, n |-> 0, ub |-> "idle"]

InitMatcher ==
    /\ mode = "binmode"
    /\ waiters = <<>>
    /\ data_buffer = <<>>
    /\ attached = TRUE
    /\ timer = [o \in Acquirers |-> NoTimer]
    /\ pc = [o \in Ops |-> IF o = "ctor" THEN "connected" ELSE "idle"]
    /\ micro = <<>>
    /\ tx = <<>>
    /\ events = <<>>
    /\ reg = <<>>
    /\ resolveLog = <<>>
    /\ cycle = [pending |-> <<>>, evals |-> <<>>]
    /\ chunks = <<>>
    /\ calls = 0
    /\ smCall = NoCall
    /\ uart = NewUart
    /\ op = NoOp

Expect(pat) ==
    /\ Len(reg) < MaxMatchers
    /\ Register(BufferOfArray(pat), "user", "user")
    /\ UNCHANGED << mode, data_buffer, attached, timer, pc, micro, tx, events,
                    resolveLog, cycle, chunks, calls, smCall >>
    /\ UNCHANGED << uart, op >>

Feed(chunk) ==
    /\ attached
    /\ Len(Flatten(chunks)) + Len(chunk) <= MaxFed
    /\ OnData(chunk)
    /\ chunks' = Append(chunks, chunk)
    /\ UNCHANGED << mode, attached, timer, pc, tx, events, reg, calls, smCall >>
    /\ UNCHANGED << uart, op >>

NextMatcher ==
    \/ \E pat \in Patterns : Expect(pat)
    \/ \E chunk \in ChunkSet : Feed(chunk)

SpecMatcher == InitMatcher /\ [][NextMatcher]_vars

-----------------------------------------------------------------------------
(* The session: constructor, reset_console, enter_binmode, switch_mode,     *)
(* Uart.uart_bridge                                                         *)

MaxProbes == 25      \* if(count > 25)
BridgeCmd == 15      \* 0x0f
ProbeByte == 0       \* 0x00

MaxCalls == 3        \* calls the application makes
MaxBuf == 5          \* bytes the inbound buffer is let grow to
MaxEarly == 2        \* probes after which device, port and application stay silent

ResetBytes == << 13, 13, 13, 13, 13, 13, 13, 13, 13, 13, 35 >>
BBIO1 == << 66, 66, 73, 79, 49 >>                 \* 'BBIO1'
UartConstants == [MODE_ID |-> 3, MODE_NAME |-> "uart", MODE_ACK |-> << 65, 82, 84, 49 >>]

\* What the device sends, and what the application itself waits for ('': the
\* next lump of data), in the session specification.
DeviceChunks == { BBIO1, UartConstants.MODE_ACK }
UserPatterns == { <<>> }

\* BusPirate.prototype.write: the argument handed to port.write
WriteArg(data) == data
WriteByteArg(n) == << n >>

ModeEvent(m) == [ev |-> "mode", arg |-> m]
ConnectedEvent == [ev |-> "connected", arg |-> ""]

\* An interval has run past the point up to which the model lets the device
\* answer, the port call back and the application call: from there it only
\* runs out.
LateProbing == \E o \in Acquirers : timer[o].active /\ timer[o].count > MaxEarly

Resting(o) == pc[o] \in {"idle", "ok", "failed"}
\* The application waits for 'connected' before it calls anything.
Connected == pc["ctor"] = "connected"
\* One negotiation at a time: the application calls enter_binmode and
\* switch_mode only once the previous such call ended.
Quiet == Connected /\ Resting("eb") /\ Resting("sm")

Init ==
    /\ mode = ""
    /\ waiters = <<>>
    /\ data_buffer = <<>>
    /\ attached = FALSE
    /\ timer = [o \in Acquirers |-> NoTimer]
    /\ pc = [o \in Ops |-> IF o = "ctor" THEN "closed" ELSE "idle"]
    /\ micro = <<>>
    /\ tx = <<>>
    /\ events = <<>>
    /\ reg = <<>>
    /\ resolveLog = <<>>
    /\ cycle = [pending |-> <<>>, evals |-> <<>>]
    /\ chunks = <<>>
    /\ calls = 0
    /\ smCall = NoCall
    /\ uart = NewUart
    /\ op = NoOp

\* A mutant of ModeOnRejection: every failed acquisition falls back to bridge mode.
ModeOnRejectionAny(o) == "uart_bridge"

\* The mode after o's chain was rejected: only the constructor has a rejection
\* handler, which assumes the device is in bridge mode.
ModeOnRejection(o) == IF o = "ctor" THEN "uart_bridge" ELSE mode

\* A mutant of AlreadyBinary: the test forgets bridge mode.
AlreadyBinaryOnlyBinmode == mode = "binmode"

\* if((this.mode == 'binmode') || (this.mode == 'uart_bridge'))
AlreadyBinary == mode = "binmode" \/ mode = "uart_bridge"

\* enter_binmode() called on behalf of o, up to its return: either an already
\* resolved promise, whose reaction is queued, or the interval and the waiter.
EnterBinmode(o) ==
    /\ pc' = [pc EXCEPT ![o] = "binmode_wait"]
    /\ IF AlreadyBinary
       THEN /\ micro' = Append(micro, AcquiredJob(o, AcquiredHops(o)))
            /\ UNCHANGED << timer, waiters, reg >>
       ELSE /\ timer' = [timer EXCEPT ![o] = [active |-> TRUE, count |-> 0, wid |-> Len(reg) + 1]]
            /\ Register(BufferOfArray(BBIO1), o, "bbio")
            /\ UNCHANGED micro

\* port 'open': reset_console() writes the reset bytes
Open ==
    /\ micro = <<>>
    /\ pc["ctor"] = "closed"
    /\ tx' = Append(tx, WriteArg(ResetBytes))
    /\ pc' = [pc EXCEPT !["ctor"] = "reset_wr"]
    /\ UNCHANGED << mode, waiters, data_buffer, attached, timer, micro, events,
                    reg, resolveLog, cycle, chunks, calls, smCall >>
    /\ UNCHANGED << uart, op >>

\* The callback of a port.write that an operation is waiting on.
WriteDone(o, ok) ==
    /\ micro = <<>>
    /\ ~LateProbing
    /\ pc[o] \in {"reset_wr", "id_wr", "wr"}
    /\ IF pc[o] = "reset_wr"
       THEN \* reset_console: setTimeout on success; on failure the caller's rejection path
            /\ pc' = [pc EXCEPT ![o] = IF ok THEN "reset_delay"
                                        ELSE IF o = "ctor" THEN "flush" ELSE "failed"]
            /\ mode' = IF ok THEN mode ELSE ModeOnRejection(o)
            /\ UNCHANGED << waiters, reg >>
       ELSE IF pc[o] = "id_wr"
       THEN \* switch_mode: .then(() => this.expect(newmode.MODE_ACK))
            /\ IF ok
               THEN /\ Register(BufferOfArray(UartConstants.MODE_ACK), o, "ack")
                    /\ pc' = [pc EXCEPT ![o] = "ack_wait"]
               ELSE /\ pc' = [pc EXCEPT ![o] = "failed"]
                    /\ UNCHANGED << waiters, reg >>
            /\ UNCHANGED mode
       ELSE \* uart_bridge: this.bp.mode = 'uart_bridge'
            /\ pc' = [pc EXCEPT ![o] = IF ok THEN "ok" ELSE "failed"]
            /\ mode' = IF ok THEN "uart_bridge" ELSE mode
            /\ UNCHANGED << waiters, reg >>
    /\ UNCHANGED << data_buffer, attached, timer, micro, tx, events,
                    resolveLog, cycle, chunks, calls, smCall >>
    /\ UNCHANGED << uart, op >>

\* reset_console's setTimeout fires; the caller goes on to enter_binmode(), the
\* constructor installing the data handler first.
Timeout(o) ==
    /\ micro = <<>>
    /\ pc[o] = "reset_delay"
    /\ attached' = IF o = "ctor" THEN TRUE ELSE attached
    /\ EnterBinmode(o)
    /\ UNCHANGED << mode, data_buffer, tx, events, resolveLog, cycle, chunks,
                    calls, smCall >>
    /\ UNCHANGED << uart, op >>

\* A mutant of Exhausted: the comment's "max 25 times".
ExhaustedAtMax(count) == count >= MaxProbes

\* if(count > 25)
Exhausted(count) == count > MaxProbes

\* One run of enter_binmode's setInterval callback.
Tick(o) ==
    /\ micro = <<>>
    /\ timer[o].active
    /\ tx' = Append(tx, WriteByteArg(ProbeByte))
    /\ LET count == timer[o].count + 1
       IN  IF Exhausted(count)
           THEN \* clearInterval(tid); this.waiters = []; reject(...): the race
                \* rejects and with it the caller's chain
                /\ timer' = [timer EXCEPT ![o] = [@ EXCEPT !.active = FALSE, !.count = count]]
                /\ waiters' = <<>>
                /\ IF pc[o] = "binmode_wait"
                   THEN /\ pc' = [pc EXCEPT ![o] = IF o = "ctor" THEN "flush" ELSE "failed"]
                        /\ mode' = ModeOnRejection(o)
                   ELSE UNCHANGED << pc, mode >>
           ELSE /\ timer' = [timer EXCEPT ![o] = [@ EXCEPT !.count = count]]
                /\ UNCHANGED << waiters, pc, mode >>
    /\ UNCHANGED << data_buffer, attached, micro, events, reg, resolveLog, cycle,
                    chunks, calls, smCall >>
    /\ UNCHANGED << uart, op >>

\* The port 'data' handler.
Data(chunk) ==
    /\ micro = <<>>
    /\ attached
    /\ ~LateProbing
    /\ Len(data_buffer) + Len(chunk) <= MaxBuf
    /\ OnData(chunk)
    /\ UNCHANGED << mode, attached, timer, pc, tx, events, reg, chunks, calls, smCall >>
    /\ UNCHANGED << uart, op >>

\* A mutant of ModeListener: the driver does not listen.
ModeListenerDeaf(u, m) == u

\* The Uart driver's listener on 'mode': if(m != this.constants.MODE_NAME)
\* this.started = false
ModeListener(u, m) == IF m # UartConstants.MODE_NAME THEN [u EXCEPT !.started = FALSE] ELSE u

\* A mutant of BinmodeEntered: the interval is left running.
BinmodeEnteredNoClear(o) ==
    /\ mode' = "binmode"
    /\ events' = Append(events, ModeEvent("binmode"))
    /\ uart' = ModeListener(uart, "binmode")
    /\ micro' = Append(Tail(micro), AcquiredJob(o, RaceHops(o)))
    /\ UNCHANGED << timer, pc, tx, waiters, reg, op >>

\* enter_binmode's reaction to expect('BBIO1'): clearInterval(tid), mode, emit;
\* the race then resolves.
BinmodeEntered(o) ==
    /\ timer' = [timer EXCEPT ![o] = [@ EXCEPT !.active = FALSE]]
    /\ mode' = "binmode"
    /\ events' = Append(events, ModeEvent("binmode"))
    /\ uart' = ModeListener(uart, "binmode")
    /\ micro' = Append(Tail(micro), AcquiredJob(o, RaceHops(o)))
    /\ UNCHANGED << pc, tx, waiters, reg, op >>

\* switch_mode's reaction to expect(newmode.MODE_ACK): it is the chain's last
\* callback, the promise switch_mode returned is fulfilled with its value and
\* the callback on that promise is the next job.
ModeSwitched(o) ==
    /\ mode' = UartConstants.MODE_NAME
    /\ events' = Append(events, ModeEvent(UartConstants.MODE_NAME))
    /\ uart' = ModeListener(uart, UartConstants.MODE_NAME)
    /\ pc' = [pc EXCEPT ![o] = "switched"]
    /\ micro' = Append(Tail(micro), SettledJob(o, 0))
    /\ UNCHANGED << timer, tx, waiters, reg, op >>

\* A mutant of Acquired: switch_mode commits the mode when it writes the id.
AcquiredCommitsEarly(o) ==
    /\ micro' = Tail(micro)
    /\ IF pc[o] # "binmode_wait"
       THEN UNCHANGED << pc, tx, mode >>
       ELSE IF o = "sm"
       THEN /\ tx' = Append(tx, WriteByteArg(UartConstants.MODE_ID))
            /\ pc' = [pc EXCEPT ![o] = "id_wr"]
            /\ mode' = UartConstants.MODE_NAME
       ELSE /\ pc' = [pc EXCEPT ![o] = IF o = "ctor" THEN "flush" ELSE "ok"]
            /\ UNCHANGED << tx, mode >>
    /\ UNCHANGED << events, timer, waiters, reg, uart, op >>

\* What the caller of enter_binmode() does once its promise resolved.
Acquired(o) ==
    /\ micro' = Tail(micro)
    /\ IF pc[o] # "binmode_wait"
       THEN UNCHANGED << pc, tx >>
       ELSE IF o = "sm"
       THEN \* .then(() => this.write(newmode.MODE_ID))
            /\ tx' = Append(tx, WriteByteArg(UartConstants.MODE_ID))
            /\ pc' = [pc EXCEPT ![o] = "id_wr"]
       ELSE IF o = "ctor"
       THEN \* self.port.flush(...)
            /\ pc' = [pc EXCEPT ![o] = "flush"]
            /\ UNCHANGED tx
       ELSE /\ pc' = [pc EXCEPT ![o] = "ok"]
            /\ UNCHANGED tx
    /\ UNCHANGED << mode, events, timer, waiters, reg, uart, op >>

-----------------------------------------------------------------------------
(* The driver operations: config_periph and the Uart driver's start,        *)
(* setopts, echo_rx, write_block and write.  Each is a promise chain; the   *)
(* chain is kept as the list of the steps it has yet to take.  A write and  *)
(* an expect suspend it, until the write's callback and until the match;    *)
(* every other step is a then-callback that runs on without suspending.     *)

WriteStep(tx_) == [k |-> "write", arg |-> tx_]
ExpectStep(buf) == [k |-> "expect", arg |-> buf]
ThenStep(k, arg) == [k |-> k, arg |-> arg]

ReadyEvent == [ev |-> "uart.ready", arg |-> ""]
PeripheralsEvent(code) == [ev |-> "peripherals", arg |-> code]
RxEchoEvent(on) == [ev |-> "uart.rx_echo", arg |-> on]
ErrorEvent == [ev |-> "error", arg |-> "err"]

\* return this.write(code).then(() => this.expect(0x1)).then(() => emit('peripherals', code))
ConfigPeriphScript(opts) ==
    LET code == PeriphCode(PeriphOptions(opts))
    IN  << WriteStep(WriteByteArg(code)), ExpectStep(BufferOfByte(1)),
           ThenStep("peripherals", << code >>) >>

\* A mutant of SetoptsScript: 'ready' without waiting for the second ack.
SetoptsScriptNoAck(options) ==
    LET opts == MergeOptions(options)
    IN  << WriteStep(WriteByteArg(BaudCmd(opts))), ExpectStep(BufferOfByte(1)),
           WriteStep(WriteByteArg(ConfigByte(opts))), ThenStep("ready", << >>) >>

\* return this.bp.write(baudcmd).then(() => this.bp.expect(0x01))
\*     .then(() => this.bp.write(config)).then(() => this.bp.expect(0x1)).then(ready)
SetoptsScript(options) ==
    LET opts == MergeOptions(options)
    IN  << WriteStep(WriteByteArg(BaudCmd(opts))), ExpectStep(BufferOfByte(1)),
           WriteStep(WriteByteArg(ConfigByte(opts))), ExpectStep(BufferOfByte(1)),
           ThenStep("ready", << >>) >>

\* return this.bp.write(code).then(() => this.bp.expect(0x01)).then(rx_echo)
EchoRxScript(on) ==
    << WriteStep(WriteByteArg(EchoCode(on))), ExpectStep(BufferOfByte(1)),
       ThenStep("rx_echo", << BoolNum(on) >>) >>

\* A mutant of WriteBlockScript: the payload goes out with the command byte,
\* before the command byte's ack.
WriteBlockScriptEager(buffer) ==
    << WriteStep(WriteByteArg(LenByte(buffer))), WriteStep(WriteArg(buffer)),
       ExpectStep(BufferOfByte(1)), ExpectStep(BufferOfArray(AckBytes(buffer))) >>

\* return this.bp.write(lenbyte).then(() => this.bp.expect(0x1))
\*     .then(() => this.bp.write(buffer)).then(() => this.bp.expect(test))
WriteBlockScript(buffer) ==
    << WriteStep(WriteByteArg(LenByte(buffer))), ExpectStep(BufferOfByte(1)),
       WriteStep(WriteArg(buffer)), ExpectStep(BufferOfArray(AckBytes(buffer))) >>

\* chunks.forEach((chunk) => { p = p.then(() => this.write_block(chunk)); })
WriteScript(buffer) ==
    LET chunks_ == ChunkSubstr(buffer, ChunkSize)
    IN  [i \in 1..Len(chunks_) |-> ThenStep("write_block", chunks_[i])]

\* switch_mode as start() calls it in mode m, which is 'binmode' or
\* 'uart_bridge': the bridge short cut, or write(MODE_ID), expect(MODE_ACK) and
\* the mode change.
SwitchModeScript(m) ==
    IF m = "uart_bridge" THEN << >>
    ELSE << WriteStep(WriteByteArg(UartConstants.MODE_ID)),
            ExpectStep(BufferOfArray(UartConstants.MODE_ACK)), ThenStep("mode", << >>) >>

\* return this.bp.switch_mode(this.constants).then((mode) => {...})
StartScript(m) == SwitchModeScript(m) \o << ThenStep("started", << >>) >>

\* The chain runs on from c = [o, mode, uart, events] until it suspends at a
\* write or an expect, or its last then-callback has run.  o.value is the
\* value the chain carries.
RECURSIVE RunChain(_)
RunChain(c) ==
    IF c.o.script = << >> THEN [c EXCEPT !.o.wait = ""]
    ELSE LET h == Head(c.o.script)
             rest == Tail(c.o.script)
         IN  IF h.k = "write" \/ h.k = "expect" THEN c
             ELSE IF h.k = "mode"
             THEN \* this.mode = newmode.MODE_NAME; this.emit('mode', ...); return newmode.MODE_NAME
                  RunChain([c EXCEPT !.o.script = rest, !.o.value = UartConstants.MODE_NAME,
                                     !.mode = UartConstants.MODE_NAME,
                                     !.events = Append(@, ModeEvent(UartConstants.MODE_NAME)),
                                     !.uart = ModeListener(@, UartConstants.MODE_NAME)])
             ELSE IF h.k = "started"
             THEN IF c.o.value = UartConstants.MODE_NAME
                  THEN \* this.started = true; return this.setopts(options)
                       RunChain([c EXCEPT !.o.script = SetoptsScript(c.o.options) \o rest,
                                          !.o.inSetopts = TRUE,
                                          !.uart = [@ EXCEPT !.started = TRUE,
                                                             !.settings = MergeOptions(c.o.options)]])
                  ELSE IF c.o.value = "uart_bridge"
                  THEN \* this.started = true; this.emit('ready'); return true
                       RunChain([c EXCEPT !.o.script = rest, !.o.value = "true",
                                          !.uart = [@ EXCEPT !.started = TRUE],
                                          !.events = Append(@, ReadyEvent)])
                  ELSE RunChain([c EXCEPT !.o.script = rest, !.o.value = "false"])
             ELSE IF h.k = "ready"
             THEN \* this.emit('ready'); return true
                  RunChain([c EXCEPT !.o.script = rest, !.o.value = "true",
                                     !.events = Append(@, ReadyEvent)])
             ELSE IF h.k = "peripherals"
             THEN \* this.emit('peripherals', code)
                  RunChain([c EXCEPT !.o.script = rest, !.o.value = "undefined",
                                     !.events = Append(@, PeripheralsEvent(h.arg[1]))])
             ELSE IF h.k = "rx_echo"
             THEN \* this.echo_rx_on = on; this.emit('rx_echo', on); return true
                  RunChain([c EXCEPT !.o.script = rest, !.o.value = "true",
                                     !.uart = [@ EXCEPT !.echo_rx_on = (h.arg[1] = 1)],
                                     !.events = Append(@, RxEchoEvent(h.arg[1] = 1))])
             ELSE \* p.then(() => this.write_block(chunk)): an Error that write_block
                  \* returns is the value the chain goes on with
                  IF Len(h.arg) > ChunkSize
                  THEN RunChain([c EXCEPT !.o.script = rest, !.o.value = "Error: size"])
                  ELSE IF ~c.uart.started
                  THEN RunChain([c EXCEPT !.o.script = rest, !.o.value = "Error: not started"])
                  ELSE RunChain([c EXCEPT !.o.script = WriteBlockScript(h.arg) \o rest])

\* start() was called, by the application or by setopts() on a driver that
\* is not started.
ViaStart(o) == o.name = "start" \/ (o.name = "setopts" /\ ~o.startedAt)

\* The jobs between the chain's last then-callback and the application's
\* callback on the promise the call returned, each of which fulfils the next
\* promise on the way: config_periph and setopts end with .then(cb).catch(),
\* start with .then(cb).catch() around the promise setopts returned, which
\* its then-callback returns; echo_rx returns the promise of its last then.
\* In Uart.write every write_block that returns an Error is a then-callback
\* of its own: o is the chain as it went on, d as it ended.
SettleHops(o, d) ==
    IF d.name = "config_periph" THEN 1
    ELSE IF d.inSetopts THEN (IF ViaStart(d) THEN 3 ELSE 1)
    ELSE IF ViaStart(d) THEN 1
    ELSE IF d.name = "write" /\ o.script # << >> THEN Len(o.script) - 1
    ELSE 0

\* The chain o goes on, q being the jobs queued: what it does up to its next
\* suspension becomes the next state; at a write the bytes go to the port, at
\* an expect the waiter is added.  At its end the application's callback on
\* the returned promise is queued; when the chain ends with an expect
\* (write_block, write), the job that runs after the match is that callback.
Proceed(o, q) ==
    LET c == RunChain([o |-> o, mode |-> mode, uart |-> uart, events |-> events])
        h == Head(c.o.script)
    IN  /\ mode' = c.mode
        /\ uart' = c.uart
        /\ events' = c.events
        /\ IF c.o.script = << >>
           THEN /\ IF o.script = << >> /\ o.value = "matched"
                   THEN op' = [c.o EXCEPT !.result = "fulfilled"] /\ micro' = q
                   ELSE /\ op' = [c.o EXCEPT !.wait = "settle"]
                        /\ micro' = Append(q, SettledJob("drv", SettleHops(o, c.o)))
                /\ UNCHANGED << tx, waiters, reg >>
           ELSE IF h.k = "write"
           THEN /\ tx' = Append(tx, h.arg)
                /\ op' = [c.o EXCEPT !.wait = "wr"]
                /\ micro' = q
                /\ UNCHANGED << waiters, reg >>
           ELSE /\ Register(h.arg, "drv", "drv")
                /\ op' = [c.o EXCEPT !.wait = "ack"]
                /\ micro' = q
                /\ UNCHANGED tx

\* A write of the chain o failed: the rejection goes to the first catch after
\* it.  config_periph's logs it; setopts' emits 'error' on the BusPirate, which
\* throws the error again when nobody listens; start's logs it; echo_rx,
\* write_block and write have none.
Caught(o) ==
    LET q == [o EXCEPT !.failed = TRUE, !.wait = ""]
        swallowed == [q EXCEPT !.result = "fulfilled", !.value = "undefined"]
        rejected == [q EXCEPT !.result = "rejected", !.value = "transport error"]
    IN  IF o.name = "config_periph"
        THEN op' = swallowed /\ UNCHANGED events
        ELSE IF o.inSetopts
        THEN IF o.listening
             THEN op' = swallowed /\ events' = Append(events, ErrorEvent)
             ELSE op' = (IF ViaStart(o) THEN swallowed ELSE rejected) /\ UNCHANGED events
        ELSE IF ViaStart(o)
        THEN op' = swallowed /\ UNCHANGED events
        ELSE op' = rejected /\ UNCHANGED events

\* What the call of the operation o.name does before it returns.
Called(o) ==
    IF o.name = "config_periph"
    THEN Proceed([o EXCEPT !.script = ConfigPeriphScript(o.flags)], micro)
    ELSE IF o.name = "setopts" /\ uart.started
    THEN \* this.settings = opts; return this.bp.write(baudcmd)...
         /\ uart' = [uart EXCEPT !.settings = MergeOptions(o.options)]
         /\ tx' = Append(tx, Head(SetoptsScript(o.options)).arg)
         /\ op' = [o EXCEPT !.script = SetoptsScript(o.options), !.inSetopts = TRUE,
                            !.wait = "wr"]
         /\ UNCHANGED << mode, events, waiters, reg, micro >>
    ELSE IF o.name = "setopts" \/ o.name = "start"
    THEN \* if(!this.started) return this.start(options)
         Proceed([o EXCEPT !.script = StartScript(mode),
                           !.value = IF mode = "uart_bridge" THEN "uart_bridge" ELSE ""],
                 micro)
    ELSE IF o.name = "echo_rx"
    THEN \* if(this.bp.mode == 'uart_bridge') return Promise.resolve(true)
         Proceed([o EXCEPT !.script = IF mode = "uart_bridge" THEN << >> ELSE EchoRxScript(o.on),
                           !.value = "true"], micro)
    ELSE IF o.name = "write"
    THEN \* if(this.bp.mode == 'uart_bridge') return this.bp.write(buffer)
         Proceed([o EXCEPT !.script = IF mode = "uart_bridge"
                                       THEN << WriteStep(WriteArg(o.payload)) >>
                                       ELSE WriteScript(o.payload),
                           !.value = "true"], micro)
    ELSE \* write_block called by the application: the Error is what it returns
         IF Len(o.payload) > ChunkSize \/ ~uart.started
         THEN /\ op' = [o EXCEPT !.result = "returned",
                                 !.value = IF Len(o.payload) > ChunkSize THEN "Error: size"
                                           ELSE "Error: not started"]
              /\ UNCHANGED << mode, uart, events, tx, waiters, reg, micro >>
         ELSE Proceed([o EXCEPT !.script = WriteBlockScript(o.payload)], micro)

\* The reaction to the match of the waiter the chain was suspended at.
DrvMatched ==
    /\ Proceed([op EXCEPT !.script = Tail(@), !.value = "matched"], Tail(micro))
    /\ UNCHANGED << timer, pc >>

\* The application's callback on the promise the call returned: the call o has
\* succeeded.
Settled(o) ==
    /\ micro' = Tail(micro)
    /\ IF o = "drv"
       THEN op' = [op EXCEPT !.result = "fulfilled", !.wait = ""] /\ UNCHANGED pc
       ELSE pc' = [pc EXCEPT ![o] = "ok"] /\ UNCHANGED op
    /\ UNCHANGED << mode, waiters, timer, tx, events, reg, uart >>

\* The oldest job only resolves the next promise: the job after it goes to
\* the end of the queue.
Requeued ==
    /\ micro' = Append(Tail(micro), [Head(micro) EXCEPT !.hops = @ - 1])
    /\ UNCHANGED << mode, waiters, timer, pc, tx, events, reg, uart, op >>

\* The callback at the head of the queue is the next one to run: no other job
\* is queued that could run before it.
Due == micro # <<>> /\ (Head(micro).hops = 0 \/ Len(micro) = 1)

\* The oldest job of the promise-job queue runs.
RunMicro ==
    /\ micro # <<>>
    /\ LET r == Head(micro)
       IN  IF ~Due THEN Requeued
           ELSE IF r.k = "matched"
           THEN IF reg[r.id].role = "bbio" THEN BinmodeEntered(reg[r.id].owner)
                ELSE IF reg[r.id].role = "ack" THEN ModeSwitched(reg[r.id].owner)
                ELSE DrvMatched
           ELSE IF r.k = "settled" THEN Settled(r.op)
           ELSE Acquired(r.op)
    /\ UNCHANGED << data_buffer, attached, resolveLog, cycle, chunks, calls, smCall >>

\* The callback of the constructor's port.flush: emit('connected')
Flushed ==
    /\ micro = <<>>
    /\ pc["ctor"] = "flush"
    /\ events' = Append(events, ConnectedEvent)
    /\ pc' = [pc EXCEPT !["ctor"] = "connected"]
    /\ UNCHANGED << mode, waiters, data_buffer, attached, timer, micro, tx,
                    reg, resolveLog, cycle, chunks, calls, smCall >>
    /\ UNCHANGED << uart, op >>

\* The application calls enter_binmode().
CallEnterBinmode ==
    /\ micro = <<>>
    /\ Quiet
    /\ calls < MaxCalls
    /\ calls' = calls + 1
    /\ EnterBinmode("eb")
    /\ UNCHANGED << mode, data_buffer, attached, tx, events, resolveLog, cycle,
                    chunks, smCall >>
    /\ UNCHANGED << uart, op >>

\* The application calls switch_mode(uart.constants).
CallSwitchMode ==
    /\ micro = <<>>
    /\ Quiet
    /\ calls < MaxCalls
    /\ calls' = calls + 1
    /\ smCall' = [from |-> mode, ev |-> Len(events), reg |-> Len(reg), tx |-> Len(tx),
                   n |-> calls + 1, ub |-> pc["ub"]]
    /\ IF mode = "uart_bridge"
       THEN /\ pc' = [pc EXCEPT !["sm"] = "ok"]
            /\ UNCHANGED << tx, micro >>
       ELSE IF mode # "binmode"
       THEN \* p = this.reset_console().then(() => this.enter_binmode())
            /\ tx' = Append(tx, WriteArg(ResetBytes))
            /\ pc' = [pc EXCEPT !["sm"] = "reset_wr"]
            /\ UNCHANGED micro
       ELSE \* p = Promise.resolve()
            /\ micro' = Append(micro, AcquiredJob("sm", 0))
            /\ pc' = [pc EXCEPT !["sm"] = "binmode_wait"]
            /\ UNCHANGED tx
    /\ UNCHANGED << mode, waiters, data_buffer, attached, timer, events, reg,
                    resolveLog, cycle, chunks >>
    /\ UNCHANGED << uart, op >>

\* The application calls uart.uart_bridge().
CallUartBridge ==
    /\ micro = <<>>
    /\ Connected
    /\ ~LateProbing
    /\ Resting("ub")
    /\ calls < MaxCalls
    /\ calls' = calls + 1
    /\ IF mode = "uart_bridge"
       THEN /\ pc' = [pc EXCEPT !["ub"] = "ok"]
            /\ UNCHANGED tx
       ELSE /\ tx' = Append(tx, WriteByteArg(BridgeCmd))
            /\ pc' = [pc EXCEPT !["ub"] = "wr"]
    /\ UNCHANGED << mode, waiters, data_buffer, attached, timer, micro, events,
                    reg, resolveLog, cycle, chunks, smCall >>
    /\ UNCHANGED << uart, op >>

\* The application calls expect(pat) itself.
CallExpect(pat) ==
    /\ micro = <<>>
    /\ Connected
    /\ ~LateProbing
    /\ calls < MaxCalls
    /\ calls' = calls + 1
    /\ Register(BufferOfArray(pat), "user", "user")
    /\ UNCHANGED << mode, data_buffer, attached, timer, pc, micro, tx, events,
                    resolveLog, cycle, chunks, smCall >>
    /\ UNCHANGED << uart, op >>

Next ==
    \/ Open
    \/ \E o \in {"ctor", "sm", "ub"}, ok \in BOOLEAN : WriteDone(o, ok)
    \/ \E o \in {"ctor", "sm"} : Timeout(o)
    \/ \E o \in Acquirers : Tick(o)
    \/ \E chunk \in DeviceChunks : Data(chunk)
    \/ RunMicro
    \/ Flushed
    \/ CallEnterBinmode
    \/ CallSwitchMode
    \/ CallUartBridge
    \/ \E pat \in UserPatterns : CallExpect(pat)

Spec == Init /\ [][Next]_vars

-----------------------------------------------------------------------------
(* The driver on its own: a connected session, watched from there on, on    *)
(* which the application calls one driver operation, and calls it again     *)
(* once it has ended.                                                       *)

MaxDrvCalls == 1     \* calls of the operation
MaxPayload == 20     \* bytes handed to write and to write_block
MaxSurplus == 1      \* bytes the device sends beyond what the oldest waiter wants

\* The string handed to write and write_block: n characters, all different.
Payload(n) == [i \in 1..n |-> 32 + i]

\* The sessions the driver is called on: connected in binary mode; started by
\* start() with no options; in bridge mode, the driver started by start() or not.
Sessions ==
    { [mode |-> "binmode", uart |-> NewUart],
      [mode |-> UartConstants.MODE_NAME,
       uart |-> [started |-> TRUE, echo_rx_on |-> FALSE, settings |-> MergeOptions(NoOptions)]],
      [mode |-> "uart_bridge", uart |-> NewUart],
      [mode |-> "uart_bridge", uart |-> [NewUart EXCEPT !.started = TRUE]] }

\* The options the application hands to setopts: each one left out or any
\* value of its documented domain; the rate also one the table does not have.
OptionSets ==
    [baudrate : {<< >>, << 115200 >>, << 1234 >>}, pin_output : {<< >>, << 0 >>, << 1 >>},
     data_bits : {<< >>, << 8 >>, << 9 >>}, parity_bit : {<< >>, << "N" >>, << "E" >>, << "O" >>},
     stop_bits : {<< >>, << 1 >>, << 2 >>}, idle_polarity : {<< >>, << 0 >>, << 1 >>}]

\* The options handed to start(), and to setopts on a driver that is not started.
StartOptions == { NoOptions, [NoOptions EXCEPT !.baudrate = << 115200 >>, !.stop_bits = << 2 >>] }

\* The application goes through start() only in binary or bridge mode: from
\* another mode switch_mode would first reset the console.
StartAllowed(o) ==
    (o.name = "start" \/ (o.name = "setopts" /\ ~uart.started)) =>
        mode \in {"binmode", "uart_bridge"}

Plans ==
    { [NoOp EXCEPT !.name = "config_periph", !.flags = f] : f \in SUBSET FlagNames }
    \cup { [NoOp EXCEPT !.name = "setopts", !.options = x, !.listening = l] :
              x \in OptionSets, l \in BOOLEAN }
    \cup { [NoOp EXCEPT !.name = "start", !.options = x, !.listening = l] :
              x \in StartOptions, l \in BOOLEAN }
    \cup { [NoOp EXCEPT !.name = "echo_rx", !.on = b] : b \in BOOLEAN }
    \cup { [NoOp EXCEPT !.name = n, !.payload = Payload(k)] :
              n \in {"write", "write_block"}, k \in 0..MaxPayload }

InitUart ==
    /\ \E s \in Sessions : mode = s.mode /\ uart = s.uart
    /\ op \in Plans
    /\ StartAllowed(op)
    /\ (op.name = "setopts" /\ ~uart.started) => op.options \in StartOptions
    /\ waiters = <<>>
    /\ data_buffer = <<>>
    /\ attached = TRUE
    /\ timer = [o \in Acquirers |-> NoTimer]
    /\ pc = [o \in Ops |-> IF o = "ctor" THEN "connected" ELSE "idle"]
    /\ micro = <<>>
    /\ tx = <<>>
    /\ events = <<>>
    /\ reg = <<>>
    /\ resolveLog = <<>>
    /\ cycle = [pending |-> <<>>, evals |-> <<>>]
    /\ chunks = <<>>
    /\ calls = 0
    /\ smCall = NoCall

\* The application calls the operation.
CallDrv ==
    /\ micro = <<>>
    /\ op.result # "pending"
    /\ calls < MaxDrvCalls
    /\ StartAllowed(op)
    /\ calls' = calls + 1
    /\ Called([op EXCEPT !.result = "pending", !.script = << >>, !.wait = "", !.value = "",
                         !.failed = FALSE, !.inSetopts = FALSE, !.txAt = Len(tx),
                         !.regAt = Len(reg), !.evAt = Len(events),
                         !.startedAt = uart.started, !.modeAt = mode])
    /\ UNCHANGED << data_buffer, attached, timer, pc, resolveLog, cycle, chunks,
                    smCall >>

\* The callback of the port.write the chain is suspended at.
DrvWriteDone(ok) ==
    /\ micro = <<>>
    /\ op.result = "pending"
    /\ op.wait = "wr"
    /\ IF ok
       THEN Proceed([op EXCEPT !.script = Tail(@), !.value = "true"], micro)
       ELSE Caught(op) /\ UNCHANGED << mode, uart, tx, waiters, reg, micro >>
    /\ UNCHANGED << data_buffer, attached, timer, pc, resolveLog, cycle, chunks,
                    calls, smCall >>

\* What the device sends: acks, one or several to a chunk, a byte that is no
\* ack, and the mode's marker.
DrvChunks ==
    { << 1 >>, << 1, 1 >>, [i \in 1..ChunkSize |-> 1], << 0 >>, UartConstants.MODE_ACK }

Bytes(buf) == { buf[i] : i \in 1..Len(buf) }
Wanted == IF waiters = <<>> THEN 0 ELSE Len(waiters[Len(waiters)].pat)

\* The port 'data' handler, the device keeping within these bounds: it sends
\* at most MaxSurplus bytes more than the oldest waiter wants, a byte that is
\* no ack once, and the marker once and only on the way into the mode.
DrvData(chunk) ==
    /\ micro = <<>>
    /\ attached
    /\ Len(data_buffer) + Len(chunk) <= Wanted + MaxSurplus
    /\ chunk = << 0 >> => 0 \notin Bytes(data_buffer)
    /\ chunk = UartConstants.MODE_ACK =>
          /\ ViaStart(op)
          /\ Bytes(chunk) \cap Bytes(data_buffer) = {}
    /\ OnData(chunk)
    /\ UNCHANGED << mode, attached, timer, pc, tx, events, reg, chunks, calls, smCall,
                    uart, op >>

NextUart ==
    \/ CallDrv
    \/ \E ok \in BOOLEAN : DrvWriteDone(ok)
    \/ \E chunk \in DrvChunks : DrvData(chunk)
    \/ RunMicro

SpecUart == InitUart /\ [][NextUart]_vars

-----------------------------------------------------------------------------
(* The handshake on its own: the constructor acquires binary mode and the   *)
(* application then calls switch_mode(uart.constants), the device answering *)
(* the probes with 'BBIO1', one or two to a chunk, and the id with 'ART1'.  *)
(* The chunks are recorded.                                                 *)

MaxReplies == 2      \* 'BBIO1' replies the device sends

\* The 'BBIO1's in a chunk and in a list of chunks.
Markers(chunk) == IF chunk = BBIO1 THEN 1 ELSE IF chunk = BBIO1 \o BBIO1 THEN 2 ELSE 0
RECURSIVE Replies(_)
Replies(cs) == IF cs = <<>> THEN 0 ELSE Markers(Head(cs)) + Replies(Tail(cs))

Written(w) == Cardinality({ i \in 1..Len(tx) : tx[i] = w })
Received(chunk) == Cardinality({ i \in 1..Len(chunks) : chunks[i] = chunk })

HandshakeChunks == { BBIO1, BBIO1 \o BBIO1, UartConstants.MODE_ACK }

\* The port 'data' handler, the device keeping to the protocol: at most one
\* 'BBIO1' for each probe byte written and one 'ART1' for each id written.
HandshakeData(chunk) ==
    /\ micro = <<>>
    /\ attached
    /\ ~LateProbing
    /\ Replies(chunks) + Markers(chunk) <= MaxReplies
    /\ Replies(chunks) + Markers(chunk) <= Written(WriteByteArg(ProbeByte))
    /\ chunk = UartConstants.MODE_ACK =>
          Received(chunk) < Written(WriteByteArg(UartConstants.MODE_ID))
    /\ OnData(chunk)
    /\ chunks' = Append(chunks, chunk)
    /\ UNCHANGED << mode, attached, timer, pc, tx, events, reg, calls, smCall, uart, op >>

NextHandshake ==
    \/ Open
    \/ \E o \in {"ctor", "sm"}, ok \in BOOLEAN : WriteDone(o, ok)
    \/ \E o \in {"ctor", "sm"} : Timeout(o)
    \/ \E o \in {"ctor", "sm"} : Tick(o)
    \/ \E chunk \in HandshakeChunks : HandshakeData(chunk)
    \/ RunMicro
    \/ Flushed
    \/ CallSwitchMode

SpecHandshake == Init /\ [][NextHandshake]_vars

\* The event loop runs a callback that is due, the port calls back, timers
\* fire: a step that can be taken is taken.
FairHandshake == SpecHandshake /\ WF_vars(NextHandshake)

-----------------------------------------------------------------------------
(* The started driver's session: a connected session in binary mode on      *)
(* which the application calls start() and write_block(), one after the     *)
(* other, and enter_binmode() and uart_bridge() at any time.  start() in a  *)
(* mode that is neither 'binmode' nor 'uart_bridge' goes through            *)
(* switch_mode's console reset and enter_binmode().                         *)

MaxSessionCalls == 2     \* calls the application makes

SessionPlans ==
    { [NoOp EXCEPT !.name = "start"], [NoOp EXCEPT !.name = "write_block", !.payload = Payload(1)] }

\* The sessions it starts from: connected in binary mode, and in mode 'uart',
\* the driver started by start() with no options.
StartedSessions == { s \in Sessions : s.mode # "uart_bridge" }

InitSession ==
    /\ \E s \in StartedSessions : mode = s.mode /\ uart = s.uart
    /\ waiters = <<>>
    /\ data_buffer = <<>>
    /\ attached = TRUE
    /\ timer = [o \in Acquirers |-> NoTimer]
    /\ pc = [o \in Ops |-> IF o = "ctor" THEN "connected" ELSE "idle"]
    /\ micro = <<>>
    /\ tx = <<>>
    /\ events = <<>>
    /\ reg = <<>>
    /\ resolveLog = <<>>
    /\ cycle = [pending |-> <<>>, evals |-> <<>>]
    /\ chunks = <<>>
    /\ calls = 0
    /\ smCall = NoCall
    /\ op = NoOp

\* start()'s switch_mode in a mode that is neither 'binmode' nor 'uart_bridge':
\* p = this.reset_console().then(() => this.enter_binmode()); start's then
\* waits for switch_mode's promise.
StartResets(o) ==
    /\ tx' = Append(tx, WriteArg(ResetBytes))
    /\ pc' = [pc EXCEPT !["sm"] = "reset_wr"]
    /\ smCall' = [from |-> mode, ev |-> Len(events), reg |-> Len(reg), tx |-> Len(tx),
                   n |-> calls + 1, ub |-> pc["ub"]]
    /\ op' = [o EXCEPT !.wait = "sm", !.script = << ThenStep("started", << >>) >>]
    /\ UNCHANGED << mode, uart, events, waiters, reg >>

\* switch_mode's promise settled and start's reaction to it has not run yet.
ResumeDue == op.result = "pending" /\ op.wait = "sm" /\ pc["sm"] \in {"ok", "failed"}

\* start's reaction to switch_mode's promise: .then((mode) => {...}) when it
\* resolved, .catch((err) => log) when it was rejected.
StartResumed ==
    /\ micro = <<>>
    /\ ResumeDue
    /\ IF pc["sm"] = "ok"
       THEN Proceed([op EXCEPT !.value = UartConstants.MODE_NAME], micro)
       ELSE Caught(op) /\ UNCHANGED << mode, uart, tx, waiters, reg, micro >>
    /\ UNCHANGED << data_buffer, attached, timer, pc, resolveLog, cycle, chunks,
                    calls, smCall >>

\* The application calls start() or write_block(), once the call before and
\* every negotiation ended.
CallOp(plan) ==
    /\ micro = <<>>
    /\ Quiet
    /\ Resting("ub")
    /\ op.result # "pending"
    /\ calls < MaxSessionCalls
    /\ calls' = calls + 1
    /\ LET o == [plan EXCEPT !.result = "pending", !.txAt = Len(tx), !.regAt = Len(reg),
                             !.evAt = Len(events), !.startedAt = uart.started,
                             !.modeAt = mode]
       IN  IF ViaStart(o) /\ mode \notin {"binmode", "uart_bridge"}
           THEN StartResets(o) /\ UNCHANGED << timer, micro >>
           ELSE Called(o) /\ UNCHANGED << timer, pc, smCall >>
    /\ UNCHANGED << data_buffer, attached, resolveLog, cycle, chunks >>

\* The application calls enter_binmode(), also while a driver call is under way.
SessionEnterBinmode == ~ResumeDue /\ calls < MaxSessionCalls /\ CallEnterBinmode

\* The application calls uart.uart_bridge() between two calls.
SessionUartBridge ==
    Quiet /\ op.result # "pending" /\ calls < MaxSessionCalls /\ CallUartBridge

MaxSessionBuf == 6       \* bytes the inbound buffer is let grow to

\* What the device sends: an ack, the markers, and an ack and 'BBIO1' in one
\* chunk.
SessionChunks == { << 1 >>, BBIO1, UartConstants.MODE_ACK, << 1 >> \o BBIO1 }

\* The port 'data' handler; start's reaction to switch_mode's promise runs
\* before the next chunk is read.
SessionData(chunk) ==
    /\ micro = <<>>
    /\ attached
    /\ ~LateProbing
    /\ ~ResumeDue
    /\ Len(data_buffer) + Len(chunk) <= MaxSessionBuf
    /\ OnData(chunk)
    /\ UNCHANGED << mode, attached, timer, pc, tx, events, reg, chunks, calls, smCall,
                    uart, op >>

\* One run of enter_binmode's setInterval callback, the device answering the
\* probes early: a behaviour in which it has not after MaxEarly + 1 probes is
\* followed no further here (the session specification follows the interval to
\* its end).
SessionTick(o) == ~LateProbing /\ Tick(o)

NextSession ==
    \/ \E plan \in SessionPlans : CallOp(plan)
    \/ SessionEnterBinmode
    \/ SessionUartBridge
    \/ StartResumed
    \/ \E ok \in BOOLEAN : DrvWriteDone(ok)
    \/ \E o \in {"sm", "ub"}, ok \in BOOLEAN : WriteDone(o, ok)
    \/ Timeout("sm")
    \/ \E o \in {"eb", "sm"} : SessionTick(o)
    \/ \E chunk \in SessionChunks : SessionData(chunk)
    \/ RunMicro

SpecSession == InitSession /\ [][NextSession]_vars

-----------------------------------------------------------------------------
(* Claims about the matcher (checked under SpecMatcher) *)

RegPats == [i \in 1..Len(reg) |-> reg[i].pat]
RegisteredFirst == \A i \in 1..Len(reg) : reg[i].at = 0
Outcome(log) == { log[i] : i \in 1..Len(log) }

\* The case of C1: N >= 1 matchers with pairwise distinct non-empty patterns, all
\* registered before any feed, and one chunk that is their patterns in order.
C1Case ==
    /\ Len(reg) >= 1
    /\ RegisteredFirst
    /\ \A i \in 1..Len(reg) : reg[i].pat # <<>>
    /\ \A i, j \in 1..Len(reg) : i # j => reg[i].pat # reg[j].pat
    /\ Len(chunks) = 1
    /\ chunks[1] = Flatten(RegPats)

\* C1: feeding P1 ++ ... ++ PN to N matchers registered in that order resolves
\* all of them in that one feed cycle, oldest first, each with its own pattern;
\* every matcher was called once, the buffer and the pending list end empty.
C1_ResolvedInOrder ==
    C1Case =>
        /\ resolveLog = [i \in 1..Len(reg) |-> [id |-> i, val |-> reg[i].pat]]
        /\ cycle.evals = [i \in 1..Len(reg) |-> i]
        /\ data_buffer = <<>>
        /\ waiters = <<>>

C1_Witness ==
    /\ C1Case
    /\ Len(reg) = 2
    /\ Len(reg[1].pat) = 1
    /\ Len(reg[2].pat) = 2
    /\ Len(resolveLog) = 2

\* The list as it stood when feeding began, newest first.
InitialWaiters ==
    [i \in 1..Len(reg) |-> [id |-> Len(reg) + 1 - i, pat |-> reg[Len(reg) + 1 - i].pat]]

OneChunkOutcome == Outcome(DataHandler(InitialWaiters, <<>>, Flatten(chunks)).res)

BytewiseRun ==
    /\ chunks # <<>>
    /\ \A k \in 1..Len(chunks) : Len(chunks[k]) = 1

\* C2 as stated: for any matchers registered before feeding, the bytes fed one
\* per chunk resolve the same matchers with the same bytes as the same bytes fed
\* as one chunk.
C2_AnyMatchers ==
    (RegisteredFirst /\ BytewiseRun) => Outcome(resolveLog) = OneChunkOutcome

\* C2 as amended: that holds of one matcher with a non-empty pattern.
C2_OneExactMatcher ==
    (RegisteredFirst /\ BytewiseRun /\ Len(reg) = 1 /\ reg[1].pat # <<>>)
        => Outcome(resolveLog) = OneChunkOutcome

C2_Witness ==
    /\ RegisteredFirst
    /\ BytewiseRun
    /\ Len(reg) = 1
    /\ Len(reg[1].pat) = 2
    /\ Len(chunks) = 3
    /\ resolveLog = << [id |-> 1, val |-> reg[1].pat] >>

-----------------------------------------------------------------------------
(* Claims about the session (checked under Spec) *)

Resolved(id) == \E i \in 1..Len(resolveLog) : resolveLog[i].id = id
PendingIds == { waiters[i].id : i \in 1..Len(waiters) }
Ticked(o) == timer'[o].count = timer[o].count + 1

\* The step feeds exactly 'BBIO1' to o's matcher: the buffer is empty, the
\* matcher is the only one pending, and what the step consumed and left is BBIO1.
FedBBIO1(o) ==
    /\ timer[o].active
    /\ data_buffer = <<>>
    /\ PendingIds = { timer[o].wid }
    /\ cycle' # cycle
    /\ Flatten([i \in 1..(Len(resolveLog') - Len(resolveLog)) |->
                    resolveLog'[Len(resolveLog) + i].val]) \o data_buffer' = BBIO1

C3Step ==
    /\ \A o \in Acquirers :
          /\ FedBBIO1(o) => resolveLog' = Append(resolveLog, [id |-> timer[o].wid, val |-> BBIO1])
          /\ Ticked(o) => ~Resolved(timer[o].wid)
    /\ (Due /\ Head(micro).k = "matched" /\ reg[Head(micro).id].role = "bbio") =>
          /\ mode' = "binmode"
          /\ events' = Append(events, ModeEvent("binmode"))
          /\ ~timer'[reg[Head(micro).id].owner].active
    /\ (Due /\ Head(micro).k = "acquired" /\ pc[Head(micro).op] = "binmode_wait") =>
          pc'[Head(micro).op] \in {"ok", "flush", "id_wr"}

\* C3: 'BBIO1' fed to the pending matcher of an enter_binmode resolves it; the
\* reaction stops the interval, sets mode to 'binmode' and emits mode('binmode');
\* the caller's chain then goes on as after a success; and no probe byte is
\* written by that interval in any step after the one that resolved the matcher.
C3_ProbeLoopCancelled == [][C3Step]_vars

C3_Witness ==
    /\ pc["ctor"] = "connected"
    /\ mode = "binmode"
    /\ Resolved(timer["ctor"].wid)
    /\ timer["ctor"].count = 2
    /\ ~timer["ctor"].active
    /\ tx = << ResetBytes, << ProbeByte >>, << ProbeByte >> >>

ExhaustedNow(o) == timer[o].wid # 0 /\ ~timer[o].active /\ ~Resolved(timer[o].wid)
ProbeWrites == Cardinality({ i \in 1..Len(tx) : tx[i] = << ProbeByte >> })

\* C4: when enter_binmode fails for want of 'BBIO1', exactly 25 probe bytes
\* have been written by its interval.
C4_ExactlyMaxProbes ==
    \A o \in Acquirers :
        ExhaustedNow(o) =>
            /\ timer[o].count = MaxProbes
            /\ (o = "ctor" /\ calls = 0) => ProbeWrites = MaxProbes

SessionUnchanged ==
    UNCHANGED << tx, waiters, reg, timer, mode, events, data_buffer, resolveLog >>

C5Step ==
    /\ (pc["eb"] # "binmode_wait" /\ pc'["eb"] = "binmode_wait"
            /\ mode \in {"binmode", "uart_bridge"}) =>
          /\ SessionUnchanged
          /\ micro' = << AcquiredJob("eb", 0) >>
    /\ (Due /\ Head(micro) = AcquiredJob("eb", 0)) =>
          /\ SessionUnchanged
          /\ pc'["eb"] = "ok"

\* C5: enter_binmode called in mode 'binmode' or 'uart_bridge' returns a resolved
\* promise and changes nothing: no write, no waiter, no interval, the same mode,
\* no notification; its caller then sees the success.
C5_Idempotent == [][C5Step]_vars

C5_Witness ==
    /\ pc["eb"] = "ok"
    /\ mode = "uart_bridge"
    /\ timer["eb"] = NoTimer
    /\ calls = 1

AtMostOnce == \A i, j \in 1..Len(resolveLog) : resolveLog[i].id = resolveLog[j].id => i = j
CalledInOrder == cycle.evals = cycle.pending
ResolvedInStep(id) ==
    \E i \in (Len(resolveLog) + 1)..Len(resolveLog') : resolveLog'[i].id = id
RemovedOnlyResolved ==
    \A id \in 1..Len(reg) :
        (id \in PendingIds /\ id \notin { waiters'[i].id : i \in 1..Len(waiters') })
            <=> ResolvedInStep(id)

\* The part of C6 about the feed loop: no matcher resolves twice, and a feed
\* cycle calls every matcher that was pending at its start once, oldest first.
C6_FeedLoopSound == AtMostOnce /\ CalledInOrder

\* C6: a matcher resolves at most once, a feed cycle calls every pending
\* matcher once and no other, and a matcher leaves the pending list exactly in
\* the step that resolves it.
C6_SingleResolution == [](AtMostOnce /\ CalledInOrder) /\ [][RemovedOnlyResolved]_vars

\* C7: every matcher that was registered is either still pending or has had its
\* promise settled; in particular after a failed acquisition nothing is left
\* unsettled.  (expect() settles a promise only by the resolve() of a match.)
C7_AllSettled ==
    \A id \in 1..Len(reg) : id \in PendingIds \/ Resolved(id)

\* C8: once mode is 'uart_bridge' it stays 'uart_bridge'.
C8_BridgeIrreversible == [][mode = "uart_bridge" => mode' = "uart_bridge"]_vars

EntersBridge == mode # "uart_bridge" /\ mode' = "uart_bridge"

\* C9 as stated: every step that changes mode to 'uart_bridge' starts in 'binmode'.
C9_BridgeOnlyFromBinmode == [][EntersBridge => mode = "binmode"]_vars

\* C9 as amended: every step that changes mode to 'uart_bridge' is the completion
\* of uart_bridge()'s write or the constructor's rejection handler (after a
\* failed reset write or a failed acquisition); no other operation sets it.
C9_BridgeOnlyByBridgeOrFallback ==
    [][EntersBridge =>
          \/ pc["ub"] = "wr" /\ pc'["ub"] = "ok"
          \/ pc["ctor"] \in {"reset_wr", "binmode_wait"} /\ pc'["ctor"] = "flush"]_vars

C9_Witness ==
    /\ mode = "uart_bridge"
    /\ pc["ub"] = "ok"
    /\ ModeEvent("uart") \in { events[i] : i \in 1..Len(events) }
    /\ tx[Len(tx)] = << BridgeCmd >>

\* No other operation has taken a step that changes mode since switch_mode was called.
SmAlone == calls = smCall.n /\ pc["ub"] = smCall.ub
SmUnacked ==
    pc["sm"] \in {"reset_wr", "reset_delay", "binmode_wait", "id_wr", "ack_wait", "failed"}
NewEvents == SubSeq(events, smCall.ev + 1, Len(events))

\* C10 as stated: until its ack is matched, and when it fails, switch_mode has
\* left mode as it found it and emitted no mode notification.
C10_NoModeChangeBeforeAck ==
    (SmUnacked /\ SmAlone) => (mode = smCall.from /\ NewEvents = <<>>)

\* C10 as amended: until its ack is matched, and when it fails, switch_mode has
\* either left mode as it found it, or, having been called in a mode other than
\* 'binmode', re-acquired binary mode: its 'BBIO1' matcher resolved, mode is
\* 'binmode' and mode('binmode') is the one notification emitted.  Mode is the
\* descriptor's name only once the ack was matched.
C10_OnlyBinmodeBeforeAck ==
    /\ (SmUnacked /\ SmAlone) =>
          \/ mode = smCall.from /\ NewEvents = <<>>
          \/ /\ smCall.from # "binmode"
             /\ timer["sm"].wid > smCall.reg
             /\ Resolved(timer["sm"].wid)
             /\ pc["sm"] \in {"binmode_wait", "id_wr", "ack_wait", "failed"}
             /\ mode = "binmode"
             /\ NewEvents = << ModeEvent("binmode") >>
    /\ (pc["sm"] \in {"switched", "ok"} /\ SmAlone /\ smCall.from # "uart_bridge") =>
          /\ mode = UartConstants.MODE_NAME
          /\ \E id \in (smCall.reg + 1)..Len(reg) :
                reg[id].owner = "sm" /\ reg[id].role = "ack" /\ Resolved(id)

C10_Witness ==
    /\ pc["sm"] = "failed"
    /\ SmAlone
    /\ smCall.from = "uart"
    /\ mode = "binmode"
    /\ tx[Len(tx)] = << UartConstants.MODE_ID >>

-----------------------------------------------------------------------------
(* Claims about the driver operations (checked under SpecUart) *)

\* What the operation has written, the waiters it has added and what has been
\* emitted since the application called it.
OpWrites == SubSeq(tx, op.txAt + 1, Len(tx))
OpWaiters == SubSeq(reg, op.regAt + 1, Len(reg))
OpEvents == SubSeq(events, op.evAt + 1, Len(events))
OpCalled == op.result # "uncalled"
OpResolved(j) == Resolved(op.regAt + j)

\* 0x80 | power<<6 | pullups<<5 | aux<<4 | mosi<<3 | clk<<2 | miso<<1 | cs
FlagBits(opts) ==
    128 + 64 * BoolNum("power" \in opts) + 32 * BoolNum("pullups" \in opts)
        + 16 * BoolNum("aux" \in opts) + 8 * BoolNum("mosi" \in opts)
        + 4 * BoolNum("clk" \in opts) + 2 * BoolNum("miso" \in opts) + BoolNum("cs" \in opts)

\* C11: for every combination of the seven flags, the byte config_periph writes
\* is 0x80 | power<<6 | pullups<<5 | aux<<4 | mosi<<3 | clk<<2 | miso<<1 | cs.
C11_PeriphByte ==
    (op.name = "config_periph" /\ OpCalled) => OpWrites[1] = << FlagBits(op.flags) >>

\* The blocks of C12: ceil(L/16) of them, all but the last of 16 bytes.
Blocks(payload) == (Len(payload) + 15) \div 16
Block(payload, k) ==
    SubSeq(payload, 16 * (k - 1) + 1, IF 16 * k < Len(payload) THEN 16 * k ELSE Len(payload))
\* Block k writes 0x10 + len_k - 1 and then the chunk; it waits for one 0x01
\* and then for len_k of them.
BlockWrite(payload, j) ==
    IF j % 2 = 1 THEN << 16 + Len(Block(payload, (j + 1) \div 2)) - 1 >>
    ELSE Block(payload, j \div 2)
BlockAcks(payload, j) ==
    IF j % 2 = 1 THEN << 1 >> ELSE [i \in 1..Len(Block(payload, j \div 2)) |-> 1]

C12Case ==
    /\ op.name = "write"
    /\ OpCalled
    /\ op.startedAt
    /\ op.modeAt # "uart_bridge"
    /\ Len(op.payload) >= 1

\* C12: Uart.write of L >= 1 bytes on a started driver outside bridge mode
\* writes, block after block, the command byte 0x10 + len - 1 and then the chunk,
\* the chunks being the payload cut into 16s; it waits for one 0x01 after the
\* command byte and for len of them after the chunk; nothing is written before
\* every wait before it has been matched; and it ends, fulfilled, after
\* exactly ceil(L/16) blocks.
C12_BlocksInOrder ==
    C12Case =>
        /\ Len(OpWrites) <= 2 * Blocks(op.payload)
        /\ \A j \in 1..Len(OpWrites) : OpWrites[j] = BlockWrite(op.payload, j)
        /\ \A j \in 1..Len(OpWaiters) : OpWaiters[j].pat = BlockAcks(op.payload, j)
        /\ Len(OpWaiters) <= Len(OpWrites)
        /\ Len(OpWrites) <= Len(OpWaiters) + 1
        /\ \A j \in 1..Len(OpWaiters) :
              (j < Len(OpWrites) \/ op.result = "fulfilled") =>
                  \E i \in 1..Len(resolveLog) :
                      resolveLog[i] = [id |-> op.regAt + j, val |-> BlockAcks(op.payload, j)]
        /\ op.result = "fulfilled" =>
              /\ Len(OpWrites) = 2 * Blocks(op.payload)
              /\ Len(OpWaiters) = 2 * Blocks(op.payload)
              /\ Flatten([k \in 1..Blocks(op.payload) |-> OpWrites[2 * k]]) = op.payload

C12_Witness ==
    /\ C12Case
    /\ Len(op.payload) = 20
    /\ op.result = "fulfilled"
    /\ Len(OpWrites) = 4
    /\ OpWrites[1] = << 31 >>
    /\ Len(OpWrites[2]) = 16
    /\ OpWrites[3] = << 19 >>
    /\ Len(OpWrites[4]) = 4
    /\ Len(resolveLog) = 4

Failure(o) == o.result = "rejected"

\* C13: write_block given more than 16 bytes, or called on a driver that is not
\* started, ends in failure with the size or the not-started error, having
\* written nothing and added no waiter; and so does Uart.write of a non-empty
\* payload on a driver that is not started, outside bridge mode.
C13_BlockErrorsFail ==
    /\ (op.name = "write_block" /\ OpCalled /\ op.result # "pending"
            /\ (Len(op.payload) > 16 \/ ~op.startedAt)) =>
          /\ Failure(op)
          /\ op.value = (IF Len(op.payload) > 16 THEN "Error: size" ELSE "Error: not started")
          /\ OpWrites = << >>
          /\ OpWaiters = << >>
    /\ (op.name = "write" /\ OpCalled /\ op.result # "pending" /\ Len(op.payload) >= 1
            /\ ~op.startedAt /\ op.modeAt # "uart_bridge") =>
          /\ Failure(op)
          /\ op.value = "Error: not started"
          /\ OpWrites = << >>
          /\ OpWaiters = << >>

\* A block of this write has failed: a transport write of it, or write_block's
\* own not-started error (its size error cannot arise from chunks of 16).
BlockFailed ==
    /\ op.name = "write"
    /\ OpCalled
    /\ op.modeAt # "uart_bridge"
    /\ Len(op.payload) >= 1
    /\ op.failed \/ ~op.startedAt

\* The part of C14 about a transport failure: the write that failed is the last
\* thing the operation did, and the operation is rejected with it.
C14_TransportFailureAborts ==
    (BlockFailed /\ op.failed) =>
        /\ Failure(op)
        /\ op.value = "transport error"
        /\ Len(OpWrites) = Len(OpWaiters) + 1
        /\ \A j \in 1..Len(OpWaiters) : OpResolved(j)

\* C14: once a block of Uart.write has failed, nothing of a later block is
\* written, no waiter is added for one, and Uart.write ends in that failure.
C14_FailureAborts ==
    BlockFailed =>
        /\ Failure(op)
        /\ op.value = (IF op.failed THEN "transport error" ELSE "Error: not started")
        /\ op.failed => (Len(OpWrites) = Len(OpWaiters) + 1 /\ \A j \in 1..Len(OpWaiters) : OpResolved(j))
        /\ ~op.failed => (OpWrites = << >> /\ OpWaiters = << >>)

Emitted(ev) == { i \in 1..Len(OpEvents) : OpEvents[i].ev = ev }
AckWaiter(j) == j <= Len(OpWaiters) /\ OpWaiters[j].pat = << 1 >> /\ OpResolved(j)

C15Case == op.name = "setopts" /\ OpCalled /\ op.startedAt

\* C15: setopts on a started driver writes the baud command byte first; it
\* writes the configuration byte only after a 0x01 was matched for the baud
\* command; it emits 'ready', once, and reports success only after a second
\* 0x01 was matched, for the configuration byte; and it never emits 'ready' when
\* an ack is missing or a write has failed.
C15_HandshakeOrder ==
    C15Case =>
        /\ Len(OpWrites) \in {1, 2}
        /\ Len(OpWrites[1]) = 1 /\ OpWrites[1][1] \in 96..105
        /\ Len(OpWrites) = 2 =>
              /\ Len(OpWrites[2]) = 1 /\ OpWrites[2][1] >= 128
              /\ AckWaiter(1)
        /\ Emitted("uart.ready") # {} =>
              /\ Cardinality(Emitted("uart.ready")) = 1
              /\ Len(OpWrites) = 2
              /\ AckWaiter(1) /\ AckWaiter(2)
              /\ ~op.failed
        /\ (op.result = "fulfilled" /\ op.value = "true") => Emitted("uart.ready") # {}

C15_Witness ==
    /\ C15Case
    /\ op.result = "fulfilled"
    /\ op.value = "true"
    /\ Emitted("uart.ready") # {}
    /\ OpWrites = << << 105 >>, << 146 >> >>
    /\ Len(resolveLog) = 2

\* The value of a setting as C16 has it: the supplied one, the default only
\* for a setting that was left out.
Supplied(x, d) == IF x = << >> THEN d ELSE x[1]
SuppliedSettings(options) ==
    [pin_output    |-> Supplied(options.pin_output, 1),
     data_bits     |-> Supplied(options.data_bits, 8),
     parity_bit    |-> Supplied(options.parity_bit, "N"),
     stop_bits     |-> Supplied(options.stop_bits, 1),
     idle_polarity |-> Supplied(options.idle_polarity, 1)]
\* 0x80 | pin_output<<4 | xx<<2 | y<<1 | z
SuppliedConfig(v) ==
    128 + 16 * v.pin_output
        + 4 * (IF v.data_bits = 9 THEN 3
               ELSE IF v.parity_bit = "N" THEN 0 ELSE IF v.parity_bit = "E" THEN 1 ELSE 2)
        + 2 * (IF v.stop_bits = 2 THEN 1 ELSE 0)
        + (IF v.idle_polarity = 0 THEN 1 ELSE 0)

\* C16: setopts stores the supplied value of every setting, the default only
\* for a setting that was not supplied, and the configuration byte it writes is
\* 0x80 | pin_output<<4 | xx<<2 | y<<1 | z of those values.
C16_SuppliedSettingsUsed ==
    (op.name = "setopts" /\ OpCalled /\ op.startedAt) =>
        LET v == SuppliedSettings(op.options)
        IN  /\ uart.settings.pin_output = v.pin_output
            /\ uart.settings.data_bits = v.data_bits
            /\ uart.settings.parity_bit = v.parity_bit
            /\ uart.settings.stop_bits = v.stop_bits
            /\ uart.settings.idle_polarity = v.idle_polarity
            /\ Len(OpWrites) >= 2 => OpWrites[2] = << SuppliedConfig(v) >>

\* The part of C16 that holds: of settings that are supplied with a value other
\* than 0, or left out.
C16_NonZeroSettingsUsed ==
    (op.name = "setopts" /\ OpCalled /\ op.startedAt
        /\ op.options.pin_output # << 0 >> /\ op.options.idle_polarity # << 0 >>) =>
        LET v == SuppliedSettings(op.options)
        IN  /\ uart.settings.pin_output = v.pin_output
            /\ uart.settings.data_bits = v.data_bits
            /\ uart.settings.parity_bit = v.parity_bit
            /\ uart.settings.stop_bits = v.stop_bits
            /\ uart.settings.idle_polarity = v.idle_polarity
            /\ Len(OpWrites) >= 2 => OpWrites[2] = << SuppliedConfig(v) >>

\* C17: no error is swallowed: an operation of which a transport write has
\* failed ends in that failure, never fulfilled.
C17_NoErrorSwallowed ==
    (OpCalled /\ op.failed) => (Failure(op) /\ op.value = "transport error")

\* The part of C17 that holds: of the operations that have no catch of their own.
C17_UncaughtErrorsSurface ==
    (OpCalled /\ op.failed /\ op.name \in {"echo_rx", "write_block", "write"}) =>
        (Failure(op) /\ op.value = "transport error")

-----------------------------------------------------------------------------
(* Claims about the inbound bytes (checked under SpecMatcher and SpecUart) *)

Consumed == Flatten([i \in 1..Len(resolveLog) |-> resolveLog[i].val])

\* C18: the bytes consumed by the satisfied matchers, in the order they were
\* consumed, followed by the inbound buffer are the bytes of all the chunks
\* delivered since the data handler was attached: none is lost, none consumed
\* twice, and a chunk that arrives while no matcher is pending stays in the buffer.
C18_BytesConserved == Consumed \o data_buffer = Flatten(chunks)

\* The part of C18 that holds: a chunk delivered while a matcher is pending is
\* split between what the matchers consume in that feed cycle and the buffer;
\* a chunk delivered while none is pending is dropped.
C18_ConservedWhilePending ==
    [][chunks' # chunks =>
          LET chunk == chunks'[Len(chunks')]
              now == Flatten([i \in 1..(Len(resolveLog') - Len(resolveLog)) |->
                                  resolveLog'[Len(resolveLog) + i].val])
          IN  IF waiters # <<>>
              THEN now \o data_buffer' = data_buffer \o chunk
              ELSE now = <<>> /\ data_buffer' = data_buffer]_vars

IsMarker(pat) == pat = BBIO1 \/ pat = UartConstants.MODE_ACK
Contains(buf, pat) ==
    \E i \in 0..Len(buf) : i + Len(pat) <= Len(buf) /\ SubSeq(buf, i + 1, i + Len(pat)) = pat

\* C19: a pending matcher for the marker 'BBIO1' or 'ART1' resolves in the first
\* feed cycle after which the buffer contains the marker, whatever precedes it:
\* no feed cycle ends with such a matcher pending and the marker in the buffer;
\* and it resolves with the marker.
C19_MarkerFoundAnywhere ==
    [][data_buffer' # data_buffer =>
          /\ \A i \in 1..Len(waiters') :
                IsMarker(waiters'[i].pat) => ~Contains(data_buffer', waiters'[i].pat)
          /\ \A i \in (Len(resolveLog) + 1)..Len(resolveLog') :
                IsMarker(reg[resolveLog'[i].id].pat) =>
                    resolveLog'[i].val = reg[resolveLog'[i].id].pat]_vars

\* The part of C19 that holds: the marker is found at the start of the buffer.
C19_MarkerFoundAtStart ==
    [][data_buffer' # data_buffer =>
          /\ \A i \in 1..Len(waiters') :
                (IsMarker(waiters'[i].pat) /\ i = Len(waiters')
                    /\ Len(data_buffer') >= Len(waiters'[i].pat)) =>
                    SubSeq(data_buffer', 1, Len(waiters'[i].pat)) # waiters'[i].pat
          /\ \A i \in (Len(resolveLog) + 1)..Len(resolveLog') :
                IsMarker(reg[resolveLog'[i].id].pat) =>
                    resolveLog'[i].val = reg[resolveLog'[i].id].pat]_vars

-----------------------------------------------------------------------------
(* Claims about switch_mode's order (checked under Spec) *)

SmWrites == SubSeq(tx, smCall.tx + 1, Len(tx))
SmWrote(w) == \E i \in 1..Len(SmWrites) : SmWrites[i] = w
SmCalled == smCall.n > 0
WritesId == tx' = Append(tx, << UartConstants.MODE_ID >>)

\* What C20 says of a call made in a mode that is neither 'binmode' nor
\* 'uart_bridge': the reset bytes are the first thing written; no probe byte is
\* written while the reset write and the settle delay are under way; and the
\* id is written only after a 'BBIO1' matcher added since the call has resolved.
C20Reacquires ==
    (SmCalled /\ smCall.from \notin {"binmode", "uart_bridge"}) =>
        /\ SmWrites # <<>> /\ SmWrites[1] = ResetBytes
        /\ pc["sm"] \in {"reset_wr", "reset_delay"} => ~SmWrote(<< ProbeByte >>)
        /\ SmWrote(<< UartConstants.MODE_ID >>) =>
              (timer["sm"].wid > smCall.reg /\ Resolved(timer["sm"].wid))

\* What C20 says of a call made in mode 'binmode': no reset and no probe byte
\* is written (by the time any other call is made).
C20Direct ==
    (SmCalled /\ smCall.from = "binmode" /\ calls = smCall.n) =>
        (~SmWrote(ResetBytes) /\ ~SmWrote(<< ProbeByte >>))

\* C20: switch_mode negotiates only from binary mode and in a fixed order: the
\* console reset first, no probe before the reset and its delay are over, the
\* id only after 'BBIO1' was matched, when it was called in a mode that is
\* neither 'binmode' nor 'uart_bridge'; no reset and no probe when it was called
\* in 'binmode'; and in every execution the id is written only in mode 'binmode'.
C20_NegotiatesFromBinmode ==
    /\ [](C20Reacquires /\ C20Direct)
    /\ [][WritesId => mode = "binmode"]_vars

\* The part of C20 that holds: of a switch_mode during which uart_bridge() is
\* neither called nor completes.
C20_OrderWhenAlone ==
    /\ []((SmAlone => C20Reacquires) /\ C20Direct)
    /\ [][(WritesId /\ SmAlone) => mode = "binmode"]_vars

-----------------------------------------------------------------------------
(* Claim about write_block's command byte (checked under SpecUart) *)

\* write_block went on to write: it returned no Error.
BlockAccepted == op.name = "write_block" /\ OpCalled /\ op.result # "returned"

\* C23: for every chunk write_block accepts without reporting an error, a
\* zero-length chunk included, the command byte it writes lies in 0x10..0x1f
\* and is 0x10 + length - 1; write_block never writes 0x0f, the bridge-entry
\* command.
C23_BlockCommandByte ==
    BlockAccepted =>
        /\ OpWrites # << >>
        /\ OpWrites[1] = << LenByte(op.payload) >>
        /\ OpWrites[1][1] \in BlockCmd..(BlockCmd + ChunkSize - 1)
        /\ \A i \in 1..Len(OpWrites) : OpWrites[i] # << BridgeCmd >>

\* The part of C23 that holds: the command byte of a chunk of 1 to 16 bytes.
C23_NonEmptyBlockCommandByte ==
    (BlockAccepted /\ Len(op.payload) >= 1) =>
        /\ OpWrites # << >>
        /\ OpWrites[1] = << LenByte(op.payload) >>
        /\ OpWrites[1][1] \in BlockCmd..(BlockCmd + ChunkSize - 1)
        /\ \A i \in 1..Len(OpWrites) : OpWrites[i] # << BridgeCmd >>

-----------------------------------------------------------------------------
(* Claim about the handshake after surplus probe replies (checked under     *)
(* FairHandshake and SpecHandshake)                                         *)

\* The bytes received since matcher i was registered.
ReceivedSince(i) == Flatten(SubSeq(chunks, reg[i].at + 1, Len(chunks)))
BeginsWith(buf, pat) == Len(buf) >= Len(pat) /\ SubSeq(buf, 1, Len(pat)) = pat

\* Binary mode was acquired after two probes or more, and more than one
\* 'BBIO1' arrived.
SurplusReplies ==
    /\ \E i \in 1..Len(events) : events[i] = ModeEvent("binmode")
    /\ Written(WriteByteArg(ProbeByte)) >= 2
    /\ Replies(chunks) >= 2

\* The switch_mode under way wrote the id, waits for the ack, and the device
\* sent the ack since.
SmAckReceived ==
    \E i \in (smCall.reg + 1)..Len(reg) :
        /\ reg[i].role = "ack"
        /\ \E j \in (reg[i].at + 1)..Len(chunks) : chunks[j] = UartConstants.MODE_ACK

SmSucceeded == pc["sm"] = "ok" /\ mode = UartConstants.MODE_NAME

\* C22: after binary mode was acquired with two probes or more, each answered
\* with 'BBIO1', a switch_mode that wrote the id and then received the ack
\* eventually succeeds, with the mode the descriptor names.
C22_SurplusRepliesNoWedge == [](SurplusReplies /\ SmAckReceived => <>SmSucceeded)

\* The general statement of C22, as an invariant: a matcher with an exact,
\* non-empty pattern that is the only one pending is not left pending once the
\* bytes received since its registration begin with its pattern.
C22_SoleMatcherResolves ==
    (Len(waiters) = 1 /\ waiters[1].pat # << >>) =>
        ~BeginsWith(ReceivedSince(waiters[1].id), waiters[1].pat)

\* The ack matcher is pending and the buffer, long enough, does not begin with
\* the ack.
Wedged ==
    \E i \in 1..Len(waiters) :
        /\ reg[waiters[i].id].role = "ack"
        /\ Len(data_buffer) >= Len(waiters[i].pat)
        /\ ~BeginsWith(data_buffer, waiters[i].pat)

\* Nothing the device sends later and no callback undoes it: the handler
\* appends to the buffer and a matcher looks at its start only.
C22_WedgedForGood == [][Wedged => Wedged']_vars

\* The part of C22 that holds: with no surplus reply (at most one 'BBIO1'
\* arrived), a switch_mode that received the ack after the id succeeds.
C22_OneReplyNoWedge == [](Replies(chunks) <= 1 /\ SmAckReceived => <>SmSucceeded)

-----------------------------------------------------------------------------
(* Claim about the driver's started flag (checked under SpecSession) *)

StartedModes == { UartConstants.MODE_NAME, "uart_bridge" }

\* A 'mode' event for a mode other than the driver's is emitted in the step.
OtherModeNotified ==
    \E i \in (Len(events) + 1)..Len(events') :
        events'[i].ev = "mode" /\ events'[i].arg # UartConstants.MODE_NAME

\* The step hands bytes of a block write to the port: the command byte or the
\* payload of the write_block under way.
BlockSent ==
    /\ op'.name = "write_block"
    /\ op'.result = "pending"
    /\ op'.wait = "wr"
    /\ Len(tx') = Len(tx) + 1

\* No negotiation beside the driver call under way: enter_binmode() was not
\* called since the call was made.
Alone == \A i \in (op.regAt + 1)..Len(reg) : reg[i].owner # "eb"

\* C21: uart.started implies that the session mode is 'uart' or 'uart_bridge';
\* a 'mode' event for a mode other than 'uart' resets started; and, one
\* negotiation being under way at a time, no byte of a block write goes out
\* while the session mode is another one.
C21_StartedFollowsMode ==
    /\ [](uart.started => mode \in StartedModes)
    /\ [][OtherModeNotified => ~uart'.started]_vars
    /\ [][(BlockSent /\ Alone') => mode' \in StartedModes]_vars

\* The driver was started in mode 'uart', a re-acquisition of binary mode
\* published 'binmode', which reset the flag, and write_block() then refused to
\* write.
C21_Witness ==
    /\ op.name = "write_block"
    /\ op.result = "returned"
    /\ op.value = "Error: not started"
    /\ OpWrites = << >>
    /\ mode = "binmode"
    /\ ~uart.started
    /\ \E k \in 1..Len(events) : events[k] = ModeEvent("binmode")

\* start() called on a started driver in mode 'uart' re-acquired binary mode,
\* which reset the flag, and then started the driver again.
C21_RestartWitness ==
    /\ op.name = "start"
    /\ op.startedAt
    /\ op.modeAt = UartConstants.MODE_NAME
    /\ uart.started
    /\ mode = UartConstants.MODE_NAME
    /\ \E k \in (op.evAt + 1)..Len(events) : events[k] = ModeEvent("binmode")

\* Without the restriction to one negotiation at a time the last part of C21
\* does not hold: write_block tests started when it is called only, and sends
\* the payload after the ack whatever the mode is by then.
C21_BlockSentWhileStarted ==
    [][BlockSent => mode' \in StartedModes]_vars

====
